---- MODULE Spec2Model ----
(***************************************************************************)
(* Model of processing/data_exporter.py: the Blender metadata exporter.    *)
(* The scene (bpy.data.objects, scene.camera, render settings) is the      *)
(* host state the script reads and, through hide_render, writes; the CSV   *)
(* file is the sequence of rows the script appends.                        *)
(***************************************************************************)
EXTENDS Integers, Sequences, FiniteSets, TLC

VARIABLES
    objects,    \* bpy.data.objects, in the collection's iteration order
    camera,     \* scene.camera (present = FALSE models None)
    engine,     \* scene.render.engine
    view,       \* scene.view_settings.view_transform
    files,      \* the image paths that exist under DATASET_ROOT
    fs, fe,     \* scene.frame_start, scene.frame_end
    pc,         \* position of the script in its main loop
    si,         \* index into setups of the current lighting setup
    frame,      \* the loop's current frame
    shi,        \* index into SHAPES of the next shape to write
    base,       \* the per-frame dict `base`
    lastrow,    \* the last dict handed to w.writerow, as the writer emits it
    log,        \* calls and writes so far: header, set_light_setup, frame_set, row
    max_n,      \* the capacity get_active_lights is called with
    res         \* outcome of the last direct call of a function under test

vars == <<objects, camera, engine, view, files, fs, fe, pc, si, frame, shi,
          base, lastrow, log, max_n, res>>

-----------------------------------------------------------------------------
(* Configuration constants of the script.                                  *)

MATERIAL_FOLDER == "PlasticGlossy"
SHAPES == <<"Cone", "Cube", "Cylinder", "Icosphere", "Sphere", "Torus">>
CAMERAS_PER_CONFIG == 17
MAX_ACTIVE_LIGHTS == 3
DATASET_ROOT == "../data"

\* LIGHTS_SINGLE as a dict: its keys and the value of each key.
LIGHTS_SINGLE_KEYS == <<"Area Light", "Point Light", "Spot Light">>
LIGHTS_SINGLE(k) ==
    CASE k = "Area Light" -> "Area"
      [] k = "Point Light" -> "Point"
      [] k = "Spot Light" -> "Spot"
LIGHTS_TRI == <<"TriLamp-Key", "TriLamp-Fill", "TriLamp-Back">>

\* ALL_LIGHT_NAMES = list(LIGHTS_SINGLE.values()) + LIGHTS_TRI
ALL_LIGHT_NAMES ==
    [i \in 1..Len(LIGHTS_SINGLE_KEYS) |-> LIGHTS_SINGLE(LIGHTS_SINGLE_KEYS[i])]
        \o LIGHTS_TRI

setups == <<"Point Light", "Spot Light", "Area Light", "Tri Light",
            "HDRI (Sunlight)", "HDRI (Overcast)">>

Range(s) == {s[i] : i \in 1..Len(s)}

-----------------------------------------------------------------------------
(* Python values.  A field value is a string, a number, a bool, or a host  *)
(* value that no coercion accepts; all are records of one shape so that    *)
(* any two can be compared.                                                *)

Str(x) == [t |-> "s", s |-> x, n |-> 0]
Num(x) == [t |-> "n", s |-> "", n |-> x]
Bool(b) == [t |-> "b", s |-> "", n |-> IF b THEN 1 ELSE 0]
Unco == [t |-> "x", s |-> "", n |-> 0]    \* float(x) and str(x) both raise
Empty == Str("")

\* float(x) succeeds on numbers and bools; the model's strings are not numerals.
FloatOk(x) == x.t \in {"n", "b"}
Float(x) == Num(x.n)
StrOk(x) == x.t # "x"
DigitStr(n) == IF n < 0 THEN "-" \o ToString(-n) \o ".0" ELSE ToString(n) \o ".0"
PyStr(x) ==
    CASE x.t = "s" -> x
      [] x.t = "n" -> Str(DigitStr(x.n))
      [] x.t = "b" -> Str(IF x.n = 1 THEN "True" ELSE "False")

safe_float(x) == IF FloatOk(x) THEN Float(x) ELSE Empty
safe_str(x) == IF StrOk(x) THEN PyStr(x) ELSE Empty

\* dict.update
Update(d, e) ==
    [k \in DOMAIN d \cup DOMAIN e |-> IF k \in DOMAIN e THEN e[k] ELSE d[k]]
EmptyDict == [k \in {} |-> Empty]

-----------------------------------------------------------------------------
(* mathutils: 3-vectors and 3x3 matrices over the integers.                *)

Dot(u, v) == u[1] * v[1] + u[2] * v[2] + u[3] * v[3]
MatVec(M, v) == <<Dot(M[1], v), Dot(M[2], v), Dot(M[3], v)>>
Transpose(M) == [i \in 1..3 |-> [j \in 1..3 |-> M[j][i]]]
ISqrt(n) == CHOOSE r \in 0..n : r * r <= n /\ (r + 1) * (r + 1) > n
\* Vector.normalized(): the zero vector stays zero.
Normalized(v) ==
    IF Dot(v, v) = 0 THEN v
    ELSE [i \in 1..3 |-> v[i] \div ISqrt(Dot(v, v))]
\* Matrix.inverted() of an orthonormal matrix (the model's camera
\* orientations are rotations).
Inverted(M) == Transpose(M)
ZeroVec == <<0, 0, 0>>

I3 == <<<<1, 0, 0>>, <<0, 1, 0>>, <<0, 0, 1>>>>
RotX90 == <<<<1, 0, 0>>, <<0, 0, -1>>, <<0, 1, 0>>>>
RotZ90 == <<<<0, -1, 0>>, <<1, 0, 0>>, <<0, 0, 1>>>>
Scale2 == <<<<2, 0, 0>>, <<0, 2, 0>>, <<0, 0, 2>>>>

obj_forward_world(obj) == Normalized(MatVec(obj.rot, <<0, 0, -1>>))

-----------------------------------------------------------------------------
(* bpy.data.objects                                                        *)

\* `if obj: obj.hide_render = h` for every name in `names`
SetHide(objs, names, h) ==
    [i \in 1..Len(objs) |->
        IF objs[i].name \in names THEN [objs[i] EXCEPT !.hide_render = h]
        ELSE objs[i]]

set_light_setup(objs, setup_name) ==
    LET off == SetHide(objs, Range(ALL_LIGHT_NAMES), TRUE) IN
    IF setup_name \in Range(LIGHTS_SINGLE_KEYS)
    THEN SetHide(off, {LIGHTS_SINGLE(setup_name)}, FALSE)
    ELSE IF setup_name = "Tri Light"
    THEN SetHide(off, Range(LIGHTS_TRI), FALSE)
    ELSE off    \* "HDRI..." (and any other name): all known lamps stay off

-----------------------------------------------------------------------------
(* get_active_lights                                                       *)

LIGHT_KEYS == <<"name", "type", "energy", "color_r", "color_g", "color_b",
                "pos_x", "pos_y", "pos_z", "dir_x", "dir_y", "dir_z",
                "dir_cam_x", "dir_cam_y", "dir_cam_z",
                "spot_cone_deg", "spot_blend",
                "area_shape", "area_size_x", "area_size_y">>

Prefix(i) == "light" \o ToString(i) \o "_"

\* Light data the model holds fixed: color, position, spot and area sizes.
LightColor(obj) == <<Num(1), Num(1), Num(1)>>
LightPos(obj) == <<Num(1), Num(2), Num(3)>>
SpotSizeEighths(obj) == 2       \* spot_size in units of pi/4 radians
Degrees(eighths) == 45 * eighths
SpotBlend(obj) == Num(0)
AreaSize(obj) == Num(1)
AreaSizeY(obj) == Num(2)

\* The filter loop of lines 102-107; float() of line 105 is unguarded.
CollectRaises(objs) ==
    \E i \in 1..Len(objs) :
        /\ objs[i].type = "LIGHT"
        /\ ~objs[i].hide_render
        /\ ~FloatOk(objs[i].energy)
\* Mutant: hide_render is not looked at.
Collected_IgnoresHidden(o) ==
    /\ o.type = "LIGHT"
    /\ ~(Float(o.energy).n <= 0)
Collected(o) ==
    /\ o.type = "LIGHT"
    /\ ~o.hide_render
    /\ ~(Float(o.energy).n <= 0)
Collect(objs) == SelectSeq(objs, Collected)

\* list.sort(key=energy, reverse=True): stable, descending.
RECURSIVE InsertDesc(_, _)
InsertDesc(x, s) ==
    IF s = <<>> THEN <<x>>
    ELSE IF Float(Head(s).energy).n >= Float(x.energy).n
         THEN <<Head(s)>> \o InsertDesc(x, Tail(s))
         ELSE <<x>> \o s
RECURSIVE SortDesc(_)
SortDesc(s) ==
    IF s = <<>> THEN <<>>
    ELSE InsertDesc(s[Len(s)], SortDesc(SubSeq(s, 1, Len(s) - 1)))

\* Mutant: the list is not capped.
Take_NoCap(s, n) == s
\* lights[:max_n] for max_n >= 0
Take(s, n) == SubSeq(s, 1, IF n < Len(s) THEN n ELSE Len(s))

\* Mutant: without a camera the world direction is reported.
DirCam_WorldFallback(cam, dir_world) ==
    IF cam.present
    THEN Normalized(MatVec(Inverted(cam.rot), dir_world))
    ELSE dir_world
\* Line 130: the light's direction in camera space, zero without a camera.
DirCam(cam, dir_world) ==
    IF cam.present
    THEN Normalized(MatVec(Inverted(cam.rot), dir_world))
    ELSE ZeroVec

EmptySlot(i) ==
    [k \in {Prefix(i) \o LIGHT_KEYS[j] : j \in 1..Len(LIGHT_KEYS)} |-> Empty]

LightSlot(i, obj, cam) ==
    LET p == Prefix(i)
        dir_world == obj_forward_world(obj)
        dir_cam == DirCam(cam, dir_world)
        col == LightColor(obj)
        pos == LightPos(obj)
        shape == IF obj.ltype = "AREA" THEN safe_str(Str(obj.shape)) ELSE Empty
        size_x == IF obj.ltype = "AREA" THEN safe_float(AreaSize(obj)) ELSE Empty
        size_y == IF obj.ltype # "AREA" THEN Empty
                  ELSE IF shape.s \in {"RECTANGLE", "ELLIPSE"}
                       THEN safe_float(AreaSizeY(obj))
                       ELSE size_x
    IN  (p \o "name" :> Str(obj.name)) @@
        (p \o "type" :> Str(obj.ltype)) @@
        (p \o "energy" :> safe_float(obj.energy)) @@
        (p \o "color_r" :> safe_float(col[1])) @@
        (p \o "color_g" :> safe_float(col[2])) @@
        (p \o "color_b" :> safe_float(col[3])) @@
        (p \o "pos_x" :> safe_float(pos[1])) @@
        (p \o "pos_y" :> safe_float(pos[2])) @@
        (p \o "pos_z" :> safe_float(pos[3])) @@
        (p \o "dir_x" :> safe_float(Num(dir_world[1]))) @@
        (p \o "dir_y" :> safe_float(Num(dir_world[2]))) @@
        (p \o "dir_z" :> safe_float(Num(dir_world[3]))) @@
        (p \o "dir_cam_x" :> safe_float(Num(dir_cam[1]))) @@
        (p \o "dir_cam_y" :> safe_float(Num(dir_cam[2]))) @@
        (p \o "dir_cam_z" :> safe_float(Num(dir_cam[3]))) @@
        (p \o "spot_cone_deg" :>
            IF obj.ltype = "SPOT"
            THEN safe_float(Num(Degrees(SpotSizeEighths(obj)))) ELSE Empty) @@
        (p \o "spot_blend" :>
            IF obj.ltype = "SPOT" THEN safe_float(SpotBlend(obj)) ELSE Empty) @@
        (p \o "area_shape" :> shape) @@
        (p \o "area_size_x" :> size_x) @@
        (p \o "area_size_y" :> size_y)

RECURSIVE Slots(_, _, _, _)
Slots(i, n, lights, cam) ==
    IF i >= n THEN EmptyDict
    ELSE Update(IF i >= Len(lights) THEN EmptySlot(i)
                ELSE LightSlot(i, lights[i + 1], cam),
                Slots(i + 1, n, lights, cam))

SelectedLights(objs, n) == Take(SortDesc(Collect(objs)), n)

\* The call's outcome: raised, or the dict it returns.
get_active_lights(objs, cam, n) ==
    IF CollectRaises(objs) THEN [raised |-> TRUE, out |-> EmptyDict]
    ELSE LET lights == SelectedLights(objs, n) IN
         [raised |-> FALSE,
          out |-> Update(("num_active_lights" :> Num(Len(lights))),
                         Slots(0, n, lights, cam))]

-----------------------------------------------------------------------------
(* get_camera                                                              *)

NoCamera == [present |-> FALSE, name |-> Empty, rot |-> I3, has_data |-> FALSE]
CamPos(cam) == <<Num(4), Num(5), Num(6)>>
CamLens(cam) == Num(50)

CAMERA_KEYS == <<"camera_name", "cam_pos_x", "cam_pos_y", "cam_pos_z",
                 "cam_forward_x", "cam_forward_y", "cam_forward_z",
                 "cam_up_x", "cam_up_y", "cam_up_z",
                 "cam_right_x", "cam_right_y", "cam_right_z",
                 "focal_length_mm">>

Vec3(p, v) ==
    (p \o "_x" :> safe_float(Num(v[1]))) @@
    (p \o "_y" :> safe_float(Num(v[2]))) @@
    (p \o "_z" :> safe_float(Num(v[3])))

get_camera(cam) ==
    IF ~cam.present THEN EmptyDict
    ELSE LET cam_pos == CamPos(cam)
             cam_forward == Normalized(MatVec(cam.rot, <<0, 0, -1>>))
             cam_up == Normalized(MatVec(cam.rot, <<0, 1, 0>>))
             cam_right == Normalized(MatVec(cam.rot, <<1, 0, 0>>))
         IN  ("camera_name" :> safe_str(cam.name)) @@
             ("cam_pos_x" :> safe_float(cam_pos[1])) @@
             ("cam_pos_y" :> safe_float(cam_pos[2])) @@
             ("cam_pos_z" :> safe_float(cam_pos[3])) @@
             Vec3("cam_forward", cam_forward) @@
             Vec3("cam_up", cam_up) @@
             Vec3("cam_right", cam_right) @@
             ("focal_length_mm" :>
                 IF cam.has_data THEN safe_float(CamLens(cam)) ELSE Empty)

-----------------------------------------------------------------------------
(* get_engine_and_batch                                                    *)

\* The characters of the identifiers the host can report.
Chars(s) ==
    CASE s = "CYCLES" -> <<"C", "Y", "C", "L", "E", "S">>
      [] s = "BLENDER_EEVEE" ->
            <<"B", "L", "E", "N", "D", "E", "R", "_", "E", "E", "V", "E", "E">>
      [] s = "BLENDER_WORKBENCH" ->
            <<"B", "L", "E", "N", "D", "E", "R", "_",
              "W", "O", "R", "K", "B", "E", "N", "C", "H">>
      [] s = "AgX" -> <<"A", "g", "X">>
      [] s = "Filmic" -> <<"F", "i", "l", "m", "i", "c">>
      [] s = "Standard" -> <<"S", "t", "a", "n", "d", "a", "r", "d">>
      [] s = "cycles" -> <<"c", "y", "c", "l", "e", "s">>
      [] s = "eevee" -> <<"e", "e", "v", "e", "e">>
      [] s = "agx" -> <<"a", "g", "x">>
      [] s = "filmic" -> <<"f", "i", "l", "m", "i", "c">>
      [] s = "" -> <<>>

UPPER == <<"A", "B", "C", "D", "E", "F", "G", "H", "I", "J", "K", "L", "M",
           "N", "O", "P", "Q", "R", "S", "T", "U", "V", "W", "X", "Y", "Z">>
LOWER == <<"a", "b", "c", "d", "e", "f", "g", "h", "i", "j", "k", "l", "m",
           "n", "o", "p", "q", "r", "s", "t", "u", "v", "w", "x", "y", "z">>
LowerChar(c) ==
    IF c \in Range(UPPER) THEN LOWER[CHOOSE i \in 1..26 : UPPER[i] = c] ELSE c
\* str.lower()
Lower(cs) == [i \in 1..Len(cs) |-> LowerChar(cs[i])]
\* `sub in s`
Contains(sub, cs) ==
    \E k \in 0..(Len(cs) - Len(sub)) : SubSeq(cs, k + 1, k + Len(sub)) = sub

EngName(e) ==
    LET eng == Lower(Chars(safe_str(e).s)) IN
    IF Contains(Chars("cycles"), eng) THEN "Cycles"
    ELSE IF Contains(Chars("eevee"), eng) THEN "Eevee" ELSE "UnknownEngine"
VtName(v) ==
    LET vt == Lower(Chars(safe_str(v).s)) IN
    IF Contains(Chars("agx"), vt) THEN "AGX"
    ELSE IF Contains(Chars("filmic"), vt) THEN "Filmic" ELSE "UnknownView"
Look == Str("None")

BatchFolder(e, v) == "Batch 1 - " \o EngName(e) \o " " \o VtName(v)

get_engine_and_batch(e, v) ==
    ("render_engine" :> safe_str(e)) @@
    ("view_transform" :> safe_str(v)) @@
    ("look" :> safe_str(Look)) @@
    ("batch_folder" :> Str(BatchFolder(e, v)))

-----------------------------------------------------------------------------
(* The CSV writer                                                          *)

RECURSIVE LightHeader(_)
LightHeader(i) ==
    IF i >= MAX_ACTIVE_LIGHTS THEN <<>>
    ELSE [j \in 1..Len(LIGHT_KEYS) |-> Prefix(i) \o LIGHT_KEYS[j]]
            \o LightHeader(i + 1)

header ==
    <<"image_relpath", "image_exists", "shape_name", "material_folder",
      "light_folder", "batch_folder", "frame", "config_id", "camera_png",
      "render_engine", "view_transform", "look">>
        \o CAMERA_KEYS \o <<"num_active_lights">> \o LightHeader(0)

\* csv.DictWriter.writerow: a key outside fieldnames raises ValueError, a
\* missing key is written as restval "".
WriterRaises(row) == ~(DOMAIN row \subseteq Range(header))
Written(row) ==
    [k \in Range(header) |-> IF k \in DOMAIN row THEN row[k] ELSE Empty]

-----------------------------------------------------------------------------
(* The main loop                                                           *)

\* os.path.join of relative components
Join(a, b) == a \o "/" \o b

\* Mutant: range(fs, fe)
FrameInRange_Exclusive(fr) == fs <= fr /\ fr < fe
\* range(fs, fe+1)
FrameInRange(fr) == fs <= fr /\ fr <= fe

Idx(fr) == fr - fs
\* Mutant: the index is left zero-based.
CameraPng_ZeroBased(fr) == Idx(fr) % CAMERAS_PER_CONFIG
CameraPng(fr) == (Idx(fr) % CAMERAS_PER_CONFIG) + 1
ConfigId(fr) == Idx(fr) \div CAMERAS_PER_CONFIG

RelPath(shape, material, setup, batch_folder, camera_png) ==
    Join(Join(Join(Join(shape, material), setup), batch_folder),
         ToString(camera_png) \o ".png")

\* exists = "" unless DATASET_ROOT.strip(); then os.path.exists(...)
Exists(rel) ==
    IF DATASET_ROOT = "" THEN Empty
    ELSE Bool(Join(DATASET_ROOT, rel) \in files)

Event(kind, setup, fr, shape) ==
    [kind |-> kind, setup |-> setup, frame |-> fr, shape |-> shape,
     config_id |-> 0, camera_png |-> 0, rel |-> "", exists |-> Empty]

\* Mutant: writeheader() is not called.
WriteHeader_Skipped ==
    /\ pc = "start"
    /\ si' = 1
    /\ pc' = "setup"
    /\ UNCHANGED <<objects, camera, engine, view, files, fs, fe, frame, shi,
                   base, lastrow, log, max_n, res>>
\* with open(...) as f: w = csv.DictWriter(...); w.writeheader()
WriteHeader ==
    /\ pc = "start"
    /\ log' = Append(log, Event("header", "", 0, ""))
    /\ si' = 1
    /\ pc' = "setup"
    /\ UNCHANGED <<objects, camera, engine, view, files, fs, fe, frame, shi,
                   base, lastrow, max_n, res>>

\* for setup in setups: set_light_setup(setup)
BeginSetup ==
    /\ pc = "setup"
    /\ si <= Len(setups)
    /\ objects' = set_light_setup(objects, setups[si])
    /\ log' = Append(log, Event("set_light_setup", setups[si], 0, ""))
    /\ frame' = fs
    /\ pc' = IF FrameInRange(fs) THEN "frame" ELSE "setup"
    /\ si' = IF FrameInRange(fs) THEN si ELSE si + 1
    /\ UNCHANGED <<camera, engine, view, files, fs, fe, shi, base, lastrow,
                   max_n, res>>

\* The values scene.camera can take when the host evaluates a frame.
FrameCameras ==
    {NoCamera,
     [present |-> TRUE, name |-> Str("Camera"), rot |-> RotX90,
      has_data |-> TRUE]}

\* scene.frame_set(frame), then lines 204-214: the per-frame dict.
BaseRow(setup, fr, objs, cam) ==
    Update(Update(Update(
        ("material_folder" :> Str(MATERIAL_FOLDER)) @@
        ("light_folder" :> Str(setup)) @@
        ("frame" :> Num(fr)) @@
        ("config_id" :> Num(ConfigId(fr))) @@
        ("camera_png" :> Num(CameraPng(fr))),
        get_engine_and_batch(engine, view)),
        get_camera(cam)),
        get_active_lights(objs, cam, max_n).out)

BeginFrame ==
    /\ pc = "frame"
    /\ \E cam \in FrameCameras :
        /\ camera' = cam
        /\ log' = Append(log, Event("frame_set", setups[si], frame, ""))
        /\ IF get_active_lights(objects, cam, max_n).raised
           THEN /\ pc' = "aborted"
                /\ UNCHANGED <<base, shi>>
           ELSE /\ base' = BaseRow(setups[si], frame, objects, cam)
                /\ shi' = 1
                /\ pc' = "shape"
    /\ UNCHANGED <<objects, engine, view, files, fs, fe, si, frame, lastrow,
                   max_n, res>>

\* Mutant: the image is named after the frame.
ShapeRow_FramePath(b, shape) ==
    LET rel == RelPath(shape, MATERIAL_FOLDER, b["light_folder"].s,
                       b["batch_folder"].s, b["frame"].n)
    IN  Update(b, ("shape_name" :> Str(shape)) @@
                  ("image_relpath" :> Str(rel)) @@
                  ("image_exists" :> Exists(rel)))
\* Lines 218-226 for one shape.
ShapeRow(b, shape) ==
    LET rel == RelPath(shape, MATERIAL_FOLDER, b["light_folder"].s,
                       b["batch_folder"].s, b["camera_png"].n)
    IN  Update(b, ("shape_name" :> Str(shape)) @@
                  ("image_relpath" :> Str(rel)) @@
                  ("image_exists" :> Exists(rel)))

\* w.writerow(row), and the loops' advance.
WriteRow ==
    /\ pc = "shape"
    /\ LET row == ShapeRow(base, SHAPES[shi]) IN
        IF WriterRaises(row)
        THEN /\ pc' = "aborted"
             /\ UNCHANGED <<lastrow, log, shi, frame, si>>
        ELSE /\ lastrow' = Written(row)
             /\ log' = Append(log,
                    [kind |-> "row", setup |-> row["light_folder"].s,
                     frame |-> row["frame"].n,
                     shape |-> row["shape_name"].s,
                     config_id |-> row["config_id"].n,
                     camera_png |-> row["camera_png"].n,
                     rel |-> row["image_relpath"].s,
                     exists |-> row["image_exists"]])
             /\ IF shi < Len(SHAPES)
                THEN /\ shi' = shi + 1
                     /\ UNCHANGED <<pc, frame, si>>
                ELSE IF FrameInRange(frame + 1)
                THEN /\ frame' = frame + 1
                     /\ pc' = "frame"
                     /\ UNCHANGED <<shi, si>>
                ELSE /\ si' = si + 1
                     /\ pc' = "setup"
                     /\ UNCHANGED <<shi, frame>>
    /\ UNCHANGED <<objects, camera, engine, view, files, fs, fe, base, max_n,
                   res>>

\* The file is closed and "Wrote:" printed.
Finish ==
    /\ pc = "setup"
    /\ si > Len(setups)
    /\ pc' = "done"
    /\ UNCHANGED <<objects, camera, engine, view, files, fs, fe, si, frame,
                   shi, base, lastrow, log, max_n, res>>

Next == WriteHeader \/ BeginSetup \/ BeginFrame \/ WriteRow \/ Finish

-----------------------------------------------------------------------------
(* Scenes of the full run                                                  *)

MaxStart == 1       \* frame_start ranges over 0..MaxStart
MaxFew == 2         \* short frame ranges hold 1..MaxFew frames
MaxOver == 1        \* long ones hold CAMERAS_PER_CONFIG + (0..MaxOver) frames

FrameCounts ==
    (1..MaxFew) \cup (CAMERAS_PER_CONFIG..(CAMERAS_PER_CONFIG + MaxOver))

Lamp(name, ltype, energy, hidden) ==
    [name |-> name, type |-> "LIGHT", hide_render |-> hidden,
     ltype |-> ltype, energy |-> energy, rot |-> I3, shape |-> "SQUARE"]
Mesh(name) ==
    [name |-> name, type |-> "MESH", hide_render |-> FALSE,
     ltype |-> "", energy |-> Num(0), rot |-> I3, shape |-> ""]

\* A scene whose single lamps carry the names `single` (area, point, spot),
\* in the collection's order (sorted by name).
Scene(single, hidden) ==
    <<Lamp(single[1], "AREA", Num(4), hidden),
      Mesh("Cube"),
      Lamp(single[2], "POINT", Num(5), hidden),
      Lamp(single[3], "SPOT", Num(6), hidden),
      Lamp("TriLamp-Back", "AREA", Num(1), hidden),
      Lamp("TriLamp-Fill", "AREA", Num(2), hidden),
      Lamp("TriLamp-Key", "AREA", Num(3), hidden)>>
Without(objs, name) == SelectSeq(objs, LAMBDA o : o.name # name)

KeyNames == LIGHTS_SINGLE_KEYS
ValueNames == [i \in 1..3 |-> LIGHTS_SINGLE(LIGHTS_SINGLE_KEYS[i])]

\* The images found on disk.
SomeFiles ==
    {Join(DATASET_ROOT,
          RelPath(sh, MATERIAL_FOLDER, st, "Batch 1 - Cycles AGX", k)) :
        sh \in {"Cone", "Cube"}, st \in {"Point Light", "Tri Light"},
        k \in {1, 2}}

\* Scene, render engine, view transform, files on disk.
Worlds ==
    {<<Scene(KeyNames, FALSE), Str("CYCLES"), Str("AgX"), SomeFiles>>,
     <<Scene(ValueNames, TRUE), Str("BLENDER_EEVEE"), Str("Filmic"), {}>>,
     <<Without(Scene(ValueNames, FALSE), "Spot"), Str("BLENDER_WORKBENCH"),
       Str("Standard"), {}>>}

NoResult == [raised |-> FALSE, out |-> EmptyDict]

LoopStart ==
    /\ pc = "start"
    /\ si = 1
    /\ frame = fs
    /\ shi = 1
    /\ base = EmptyDict
    /\ lastrow = EmptyDict
    /\ log = <<>>
    /\ max_n = MAX_ACTIVE_LIGHTS
    /\ res = NoResult

Init ==
    /\ \E w \in Worlds :
        objects = w[1] /\ engine = w[2] /\ view = w[3] /\ files = w[4]
    /\ camera = NoCamera
    /\ fs \in 0..MaxStart
    /\ \E n \in FrameCounts : fe = fs + n - 1
    /\ LoopStart

Spec == Init /\ [][Next]_vars

-----------------------------------------------------------------------------
(* A run over scenes whose fields may refuse coercion.                     *)

CoerceScenes ==
    {<<Lamp("Point", "POINT", Unco, h), Lamp("TriLamp-Key", "AREA", Num(3), h)>> :
        h \in BOOLEAN}
    \cup {<<Lamp("Sun", "SUN", Unco, TRUE), Lamp("TriLamp-Key", "AREA", Num(3), TRUE)>>}

InitCoerce ==
    /\ objects \in CoerceScenes
    /\ engine \in {Str("CYCLES"), Unco}
    /\ view \in {Str("AgX"), Unco}
    /\ files = {}
    /\ camera = NoCamera
    /\ fs = 1
    /\ \E n \in 1..MaxFew : fe = fs + n - 1
    /\ LoopStart

SpecCoerce == InitCoerce /\ [][Next]_vars

-----------------------------------------------------------------------------
(* set_light_setup called in any order on any scene of known lamps.        *)

KnownLamps ==
    <<Lamp("Area", "AREA", Num(4), FALSE),
      Lamp("Area Light", "AREA", Num(4), FALSE),
      Lamp("Point", "POINT", Num(5), FALSE),
      Lamp("Point Light", "POINT", Num(5), FALSE),
      Lamp("Spot", "SPOT", Num(6), FALSE),
      Lamp("Spot Light", "SPOT", Num(6), FALSE),
      Lamp("TriLamp-Back", "AREA", Num(1), FALSE),
      Lamp("TriLamp-Fill", "AREA", Num(2), FALSE),
      Lamp("TriLamp-Key", "AREA", Num(3), FALSE)>>

\* The lamps at the positions `present`, those at `hidden` hidden.
SubScene(present, hidden) ==
    LET all == [i \in 1..Len(KnownLamps) |->
                    [KnownLamps[i] EXCEPT !.hide_render = (i \in hidden)]]
        F[i \in 0..Len(all)] ==
            IF i = 0 THEN <<>>
            ELSE IF i \in present THEN Append(F[i - 1], all[i]) ELSE F[i - 1]
    IN  F[Len(all)]

InitSetup ==
    /\ \E present \in SUBSET (1..Len(KnownLamps)) :
        \E hidden \in SUBSET present : objects = SubScene(present, hidden)
    /\ camera = NoCamera
    /\ engine = Str("CYCLES")
    /\ view = Str("AgX")
    /\ files = {}
    /\ fs = 1
    /\ fe = 1
    /\ LoopStart

SwitchSetup ==
    /\ pc \in {"start", "switched", "probed"}
    /\ \E i \in 1..Len(setups) :
        /\ si' = i
        /\ objects' = set_light_setup(objects, setups[i])
    /\ pc' = "switched"
    /\ UNCHANGED <<camera, engine, view, files, fs, fe, frame, shi, base,
                   lastrow, log, max_n, res>>

\* A frame processed under the setup: get_active_lights(scene)
ProbeLights ==
    /\ pc = "switched"
    /\ res' = get_active_lights(objects, camera, max_n)
    /\ pc' = "probed"
    /\ UNCHANGED <<objects, camera, engine, view, files, fs, fe, si, frame,
                   shi, base, lastrow, log, max_n>>

NextSetup == SwitchSetup \/ ProbeLights
SpecSetup == InitSetup /\ [][NextSetup]_vars

-----------------------------------------------------------------------------
(* get_active_lights on any small collection of objects.                   *)

MaxLights == 4      \* objects in the collection

\* What one object of the collection can be: (hide_render, energy) of a
\* light, or a mesh.
LightVariants ==
    {<<FALSE, 0>>, <<FALSE, 1>>, <<FALSE, 2>>, <<TRUE, 2>>, <<FALSE, -1>>}
LightTypes == <<"POINT", "SPOT", "AREA", "SUN">>
AreaShapes == <<"SQUARE", "RECTANGLE", "DISK", "ELLIPSE">>
Orientations == <<I3, RotX90, Scale2, RotZ90>>

ObjectAt(i, v) ==
    IF v = <<TRUE, 0>> THEN Mesh("Mesh" \o ToString(i))
    ELSE [name |-> "Lamp" \o ToString(i), type |-> "LIGHT",
          hide_render |-> v[1],
          ltype |-> LightTypes[((i - 1) % 4) + 1],
          energy |-> Num(v[2]),
          rot |-> Orientations[((i + v[2]) % 4) + 1],
          shape |-> AreaShapes[((i + v[2]) % 4) + 1]]

Collections ==
    UNION {{[i \in 1..n |-> ObjectAt(i, f[i])] :
                f \in [1..n -> LightVariants \cup {<<TRUE, 0>>}]} :
           n \in 0..MaxLights}

LightCameras ==
    {NoCamera,
     [present |-> TRUE, name |-> Str("Camera"), rot |-> RotZ90,
      has_data |-> TRUE]}

InitLights ==
    /\ objects \in Collections
    /\ camera \in LightCameras
    /\ max_n \in 0..MAX_ACTIVE_LIGHTS
    /\ engine = Str("CYCLES")
    /\ view = Str("AgX")
    /\ files = {}
    /\ fs = 1
    /\ fe = 1
    /\ pc = "start"
    /\ si = 1
    /\ frame = fs
    /\ shi = 1
    /\ base = EmptyDict
    /\ lastrow = EmptyDict
    /\ log = <<>>
    /\ res = NoResult

CallLights ==
    /\ pc = "start"
    /\ res' = get_active_lights(objects, camera, max_n)
    /\ pc' = "called"
    /\ UNCHANGED <<objects, camera, engine, view, files, fs, fe, si, frame,
                   shi, base, lastrow, log, max_n>>

NextLights == CallLights
SpecLights == InitLights /\ [][NextLights]_vars

-----------------------------------------------------------------------------
(* Properties                                                              *)

Min(a, b) == IF a < b THEN a ELSE b
Rows == SelectSeq(log, LAMBDA e : e.kind = "row")
NumFrames == fe - fs + 1
LastEvent == log[Len(log)]
LastIsRow == Len(log) > 0 /\ LastEvent.kind = "row"

\* A light object that is render-visible with strictly positive intensity.
IsActive(o) ==
    o.type = "LIGHT" /\ ~o.hide_render /\ FloatOk(o.energy) /\ o.energy.n > 0
ActiveCount(objs) == Cardinality({i \in 1..Len(objs) : IsActive(objs[i])})

IsEnvironmentOnly(setup) == setup \in {"HDRI (Sunlight)", "HDRI (Overcast)"}

\* C1: after switching to an environment-only setup no lamp object is left
\* render-visible with positive intensity, and a frame processed under the
\* setup reports zero active lights, whatever the scene looked like before.
C1_EnvironmentOnlyNoActiveLamps ==
    (pc \in {"switched", "probed"} /\ IsEnvironmentOnly(setups[si])) =>
        /\ ActiveCount(objects) = 0
        /\ pc = "probed" => res.out["num_active_lights"] = Num(0)

\* The lamps the documentation of LIGHTS_SINGLE and LIGHTS_TRI names.
DocumentedLamps == Range(LIGHTS_SINGLE_KEYS) \cup Range(LIGHTS_TRI)
SetupMembers(setup) ==
    IF setup \in Range(LIGHTS_SINGLE_KEYS) THEN {setup}
    ELSE IF setup = "Tri Light" THEN Range(LIGHTS_TRI)
    ELSE {}

\* C2: after set_light_setup(S), every documented lamp present in the scene
\* is render-visible exactly when it belongs to S; absent lamps are skipped.
C2_VisibleIffInSetup ==
    pc \in {"switched", "probed"} =>
        \A i \in 1..Len(objects) :
            objects[i].name \in DocumentedLamps =>
                (~objects[i].hide_render <=>
                    objects[i].name \in SetupMembers(setups[si]))

\* What the division of the frame offset by CAMERAS_PER_CONFIG must give.
RowIndexOK(e) ==
    /\ e.camera_png \in 1..CAMERAS_PER_CONFIG
    /\ e.config_id >= 0
    /\ e.config_id * CAMERAS_PER_CONFIG + (e.camera_png - 1) = e.frame - fs
    /\ e.frame - fs < CAMERAS_PER_CONFIG =>
            (e.config_id = 0 /\ e.camera_png = e.frame - fs + 1)

\* C3: every row's camera_png is (idx mod C) + 1 and its config_id is
\* idx div C; camera_png lies in 1..C, config_id never decreases within a
\* setup, and the first C frames have config_id 0 and each camera_png once.
C3_CameraAndConfigIndex ==
    /\ LastIsRow => RowIndexOK(LastEvent)
    /\ pc = "done" =>
        LET rows == Rows IN
        /\ \A k \in 1..Len(rows) : RowIndexOK(rows[k])
        /\ \A k \in 1..(Len(rows) - 1) :
                rows[k].setup = rows[k + 1].setup =>
                    rows[k].config_id <= rows[k + 1].config_id
        /\ \A s \in Range(setups) :
                {rows[k].camera_png :
                    k \in {j \in 1..Len(rows) :
                            /\ rows[j].setup = s
                            /\ rows[j].frame - fs < CAMERAS_PER_CONFIG}}
                    = 1..Min(CAMERAS_PER_CONFIG, NumFrames)

C3_Witness ==
    /\ pc = "done"
    /\ NumFrames > CAMERAS_PER_CONFIG
    /\ LastEvent.config_id = 1
    /\ LastEvent.camera_png = 1

SlotKeys(i) == {Prefix(i) \o LIGHT_KEYS[j] : j \in 1..Len(LIGHT_KEYS)}
SlotIsEmpty(d, i) == \A k \in SlotKeys(i) : d[k] = Empty

\* C4: get_active_lights returns num_active_lights = min(N, number of
\* active lights); slots below that count are populated, slots from it up to
\* N are empty in all 20 attributes, and there are exactly N slot groups.
C4_CountAndPadding ==
    pc = "called" =>
        /\ ~res.raised
        /\ DOMAIN res.out =
                {"num_active_lights"} \cup UNION {SlotKeys(i) : i \in 0..(max_n - 1)}
        /\ res.out["num_active_lights"] = Num(Min(max_n, ActiveCount(objects)))
        /\ \A i \in 0..(max_n - 1) :
                IF i < Min(max_n, ActiveCount(objects))
                THEN /\ res.out[Prefix(i) \o "name"] # Empty
                     /\ res.out[Prefix(i) \o "energy"] # Empty
                ELSE SlotIsEmpty(res.out, i)

C4_Witness ==
    /\ pc = "called"
    /\ max_n = 3
    /\ Len(objects) > 1
    /\ ActiveCount(objects) = 1
    /\ res.out["num_active_lights"] = Num(1)
    /\ ~SlotIsEmpty(res.out, 0)
    /\ SlotIsEmpty(res.out, 1)
    /\ SlotIsEmpty(res.out, 2)

SlotCount(d) == d["num_active_lights"].n
SlotNames(d) == {d[Prefix(i) \o "name"].s : i \in 0..(SlotCount(d) - 1)}

\* C5: the populated slots hold distinct active lights only, in descending
\* order of intensity, and no active light left out is brighter than a light
\* in a slot.
C5_TopNDescending ==
    pc = "called" =>
        /\ \A i \in 0..(SlotCount(res.out) - 1) :
                \E k \in 1..Len(objects) :
                    /\ IsActive(objects[k])
                    /\ Str(objects[k].name) = res.out[Prefix(i) \o "name"]
                    /\ objects[k].energy = res.out[Prefix(i) \o "energy"]
        /\ Cardinality(SlotNames(res.out)) = SlotCount(res.out)
        /\ \A i, j \in 0..(SlotCount(res.out) - 1) :
                i < j => res.out[Prefix(i) \o "energy"].n
                            >= res.out[Prefix(j) \o "energy"].n
        /\ \A k \in 1..Len(objects) :
                (IsActive(objects[k]) /\ objects[k].name \notin SlotNames(res.out))
                    => \A i \in 0..(SlotCount(res.out) - 1) :
                            objects[k].energy.n <= res.out[Prefix(i) \o "energy"].n

C5_Witness ==
    /\ pc = "called"
    /\ max_n = 2
    /\ ActiveCount(objects) = 3
    /\ \E k \in 1..Len(objects) :
            objects[k].type = "LIGHT" /\ objects[k].hide_render
                /\ objects[k].energy.n > 0
    /\ res.out["light0_energy"] = Num(2)
    /\ res.out["light1_energy"] = Num(2)
    /\ \E k \in 1..Len(objects) :
            IsActive(objects[k]) /\ objects[k].energy = Num(1)

RowTriples(rows) ==
    {<<rows[k].setup, rows[k].frame, rows[k].shape>> : k \in 1..Len(rows)}

\* C6: a completed run has written exactly #setups x #frames x #shapes data
\* rows, one for every (setup, frame, shape) and none twice.
C6_RowCount ==
    pc = "done" =>
        LET rows == Rows
            triples == RowTriples(rows)
        IN  /\ Len(rows) = Len(setups) * NumFrames * Len(SHAPES)
            /\ triples = Range(setups) \X (fs..fe) \X Range(SHAPES)
            /\ Cardinality(triples) = Len(rows)

C6_Witness ==
    /\ pc = "done"
    /\ NumFrames = CAMERAS_PER_CONFIG + 1
    /\ Len(Rows) = 6 * 18 * 6

\* The event at position k of a run's log when the loops nest setup, frame,
\* shape: the header, then per setup its switch, then per frame its
\* frame_set and one row per shape.
PerFrame == 1 + Len(SHAPES)
PerSetup == 1 + NumFrames * PerFrame
ExpectedAt(k) ==
    IF k = 1 THEN <<"header", "", 0, "">>
    ELSE LET s == (k - 2) \div PerSetup
             r == (k - 2) % PerSetup
         IN  IF r = 0 THEN <<"set_light_setup", setups[s + 1], 0, "">>
             ELSE LET f == (r - 1) \div PerFrame
                      t == (r - 1) % PerFrame
                  IN  IF t = 0 THEN <<"frame_set", setups[s + 1], fs + f, "">>
                      ELSE <<"row", setups[s + 1], fs + f, SHAPES[t]>>
EventKey(e) == <<e.kind, e.setup, e.frame, e.shape>>

\* C7: the header is written once and first; rows follow in setup, frame,
\* shape order; each setup's set_light_setup precedes its rows and each
\* frame's frame_set precedes that frame's rows.
C7_OutputOrder ==
    /\ Len(log) > 0 => EventKey(LastEvent) = ExpectedAt(Len(log))
    /\ pc = "done" =>
        /\ Len(log) = 1 + Len(setups) * PerSetup
        /\ \A k \in 1..Len(log) : EventKey(log[k]) = ExpectedAt(k)

C7_Witness ==
    /\ pc = "done"
    /\ NumFrames = 2
    /\ log[1].kind = "header"
    /\ log[2].kind = "set_light_setup"
    /\ log[3].kind = "frame_set"
    /\ EventKey(log[4]) = <<"row", "Point Light", fs, "Cone">>
    /\ EventKey(log[10]) = <<"frame_set", "Point Light", fs + 1, "">>
    /\ EventKey(LastEvent) = <<"row", "HDRI (Overcast)", fe, "Torus">>

DirCamZero(d, i) ==
    /\ d[Prefix(i) \o "dir_cam_x"] = Num(0)
    /\ d[Prefix(i) \o "dir_cam_y"] = Num(0)
    /\ d[Prefix(i) \o "dir_cam_z"] = Num(0)

\* C8: a frame without a camera does not abort the run: the frame's dict has
\* no camera field, so the camera columns of its rows are empty; dir_cam of
\* every populated slot is the zero vector; all shapes' rows are written.
C8_NoCameraFrame ==
    /\ pc # "aborted"
    /\ (pc = "shape" /\ ~camera.present) =>
        /\ DOMAIN base \cap Range(CAMERA_KEYS) = {}
        /\ \A i \in 0..(SlotCount(base) - 1) : DirCamZero(base, i)
    /\ (LastIsRow /\ ~camera.present) =>
        /\ \A k \in Range(CAMERA_KEYS) : lastrow[k] = Empty
        /\ \A i \in 0..(SlotCount(lastrow) - 1) : DirCamZero(lastrow, i)
    /\ (LastIsRow /\ ~camera.present /\ pc # "shape") =>
        \A j \in 1..Len(SHAPES) :
            EventKey(log[Len(log) - Len(SHAPES) + j]) =
                <<"row", LastEvent.setup, LastEvent.frame, SHAPES[j]>>

C8_Witness ==
    /\ LastIsRow
    /\ ~camera.present
    /\ pc = "frame"
    /\ LastEvent.shape = "Torus"
    /\ SlotCount(lastrow) = 3
    /\ lastrow["light0_name"] = Str("TriLamp-Key")
    /\ lastrow["camera_name"] = Empty

\* C9: a field whose coercion fails is written as the empty string, the row
\* is still emitted and the run goes on.
C9_CoercionFailureKeepsRow ==
    /\ pc # "aborted"
    /\ (LastIsRow /\ engine = Unco) => lastrow["render_engine"] = Empty

\* The row of the same setup and shape CAMERAS_PER_CONFIG frames later.
Later(k) == k + CAMERAS_PER_CONFIG * Len(SHAPES)

\* C10: image_relpath does not depend on config_id: rows of one setup and
\* shape whose frames differ by CAMERAS_PER_CONFIG have different config_id
\* but the same image_relpath and image_exists; so the paths of a run are
\* all different only when the range holds at most CAMERAS_PER_CONFIG frames.
C10_PathIgnoresConfig ==
    pc = "done" =>
        LET rows == Rows IN
        /\ \A k \in 1..Len(rows) :
                (Later(k) <= Len(rows) /\ rows[Later(k)].setup = rows[k].setup) =>
                    /\ rows[Later(k)].shape = rows[k].shape
                    /\ rows[Later(k)].frame = rows[k].frame + CAMERAS_PER_CONFIG
                    /\ rows[Later(k)].config_id # rows[k].config_id
                    /\ rows[Later(k)].rel = rows[k].rel
                    /\ rows[Later(k)].exists = rows[k].exists
        /\ Cardinality({rows[k].rel : k \in 1..Len(rows)}) = Len(rows)
                => NumFrames <= CAMERAS_PER_CONFIG

C10_Witness ==
    /\ pc = "done"
    /\ NumFrames = CAMERAS_PER_CONFIG + 1
    /\ Rows[1].rel = Rows[Later(1)].rel
    /\ Rows[1].exists = Bool(TRUE)
    /\ Rows[1].config_id = 0
    /\ Rows[Later(1)].config_id = 1

====
